---- MODULE Spec2Model ----
(***************************************************************************)
(* Model of the REPL environment of click (src/src/main.rs, struct Env):   *)
(* the selected object and last fetched list, the active context and       *)
(* namespace, the prompt, the aliases held in the click config, and the    *)
(* tracked port forwards.                                                  *)
(*                                                                         *)
(* Option<T> is modelled as a sequence: <<>> is None, <<x>> is Some(x).    *)
(* Strings that are only compared are TLA+ strings; strings that are cut   *)
(* (command lines, alias names, expansions) are sequences of characters.   *)
(***************************************************************************)
EXTENDS Integers, Sequences, FiniteSets, TLC

VARIABLES
    alive,                      \* FALSE once the process has panicked or exited
    kluster,                    \* Env.kluster: Option<Kluster> (its name)
    namespace,                  \* Env.namespace: Option<String>
    current_object,             \* Env.current_object: KObj
    current_object_namespace,   \* Env.current_object_namespace
    last_objs,                  \* Env.last_objs: LastList
    prompt,                     \* Env.prompt
    click_config,               \* Env.click_config (namespace, context, aliases)
    file,                       \* what the click config file holds
    port_forwards,              \* Env.port_forwards: Vec<PortForward>
    line,                       \* command line being alias-expanded
    prev_word,                  \* the word expanded by the previous round
    expansions,                 \* productive expansions of the current line
    pc,                         \* "idle" or "expanding"
    ctrlcbool,                  \* the value of the AtomicBool behind CTC_BOOL
    handlers,                   \* how often CTC_BOOL was initialised (handler installed)
    last                        \* observation: the last call, its inputs and result

vars == <<alive, kluster, namespace, current_object, current_object_namespace,
          last_objs, prompt, click_config, file, port_forwards,
          line, prev_word, expansions, pc, ctrlcbool, handlers, last>>

selVars == <<kluster, namespace, current_object, current_object_namespace,
             last_objs, prompt>>
cfgVars == <<click_config, file>>
loopVars == <<line, prev_word, expansions, pc>>
lifeVars == <<ctrlcbool, handlers>>

----------------------------------------------------------------------------
(* Bounds *)

MaxItems == 2          \* longest list recorded
MaxLineLen == 3        \* longest command line
MaxExpansions == 3     \* rounds of the expansion loop that are followed
MaxForwards == 3       \* most port forwards tracked at once

----------------------------------------------------------------------------
(* Option<T> *)

None == <<>>
Some(x) == <<x>>
IsSome(o) == o # <<>>
Unwrap(o) == o[1]
OptionOf(S) == {None} \cup {Some(x) : x \in S}

Range(s) == {s[i] : i \in 1..Len(s)}
SeqsUpTo(S, n) == UNION {[1..k -> S] : k \in 0..n}

\* Vec::swap_remove(p): the last element takes the place of the removed one
swap_remove(v, p) ==
    [j \in 1..(Len(v) - 1) |-> IF j = p + 1 THEN v[Len(v)] ELSE v[j]]

\* Vec::remove(p), p counted from 0
VecRemove(v, p) == [j \in 1..(Len(v) - 1) |-> IF j <= p THEN v[j] ELSE v[j + 1]]

----------------------------------------------------------------------------
(* The selected object and the last list *)

Namespaces == {"ns1", "ns2"}
NsOpt == OptionOf(Namespaces)

Kinds == {"Pod", "Node", "Deployment", "Service", "ReplicaSet", "StatefulSet",
          "ConfigMap", "Secret", "Job"}
\* the kinds whose items are json values read with val_str_opt
ValueKinds == {"ReplicaSet", "StatefulSet", "ConfigMap", "Secret", "Job"}

\* enum KObj
KObjNone == [kind |-> "None"]
KObjPod(name, containers) == [kind |-> "Pod", name |-> name, containers |-> containers]
KObjNamed(kind, name) == [kind |-> kind, name |-> name]

\* The items a list of each kind is drawn from.  metadata.name is a String
\* for Pod, Node, Deployment and Service and a json lookup (Option) for the
\* other kinds; metadata.namespace is an Option everywhere.
PlainItems ==
    { [name |-> Some("p0"), namespace |-> Some("ns1"), containers |-> <<"c0">>],
      [name |-> Some("p1"), namespace |-> None, containers |-> <<"c1", "c0">>] }
ValueItems ==
    PlainItems \cup {[name |-> None, namespace |-> Some("ns1"), containers |-> <<>>]}

\* enum LastList
LastListNone == [kind |-> "None"]
LastLists ==
    {[kind |-> k, items |-> its] : k \in Kinds \ ValueKinds, its \in SeqsUpTo(PlainItems, MaxItems)}
    \cup {[kind |-> k, items |-> its] : k \in ValueKinds, its \in SeqsUpTo(ValueItems, MaxItems)}

\* the indices a user can give: every position of a longest list and one past it
Indices == 0..MaxItems

----------------------------------------------------------------------------
(* The prompt *)

Paint(colour, bold, text) == [colour |-> colour, bold |-> bold, text |-> text]

ObjectColour(kind) ==
    CASE kind = "Pod" -> "Yellow"
      [] kind = "Node" -> "Blue"
      [] kind = "Deployment" -> "Purple"
      [] kind = "Service" -> "Cyan"
      [] kind = "ReplicaSet" -> "Green"
      [] kind = "StatefulSet" -> "Green"
      [] kind = "ConfigMap" -> "Black"
      [] kind = "Secret" -> "Red"
      [] kind = "Job" -> "Purple"

\* set_prompt leaving the namespace out
PromptOf_no_namespace(k, ns, obj) ==
    << IF IsSome(k) THEN Paint("Red", TRUE, Unwrap(k)) ELSE Paint("Red", FALSE, "none"),
       Paint("Green", FALSE, "none"),
       IF obj.kind = "None" THEN Paint("Yellow", FALSE, "none")
       ELSE Paint(ObjectColour(obj.kind), TRUE, obj.name) >>

\* the string set_prompt formats from the three fields
PromptOf(k, ns, obj) ==
    << IF IsSome(k) THEN Paint("Red", TRUE, Unwrap(k)) ELSE Paint("Red", FALSE, "none"),
       IF IsSome(ns) THEN Paint("Green", TRUE, Unwrap(ns)) ELSE Paint("Green", FALSE, "none"),
       IF obj.kind = "None" THEN Paint("Yellow", FALSE, "none")
       ELSE Paint(ObjectColour(obj.kind), TRUE, obj.name) >>

\* the literal Env::new stores before it calls set_context
InitialPrompt ==
    << Paint("Red", FALSE, "none"), Paint("Green", FALSE, "none"),
       Paint("Yellow", FALSE, "none") >>

----------------------------------------------------------------------------
(* Contexts and the click config *)

\* contexts the kube config can resolve, and the names a user can type
Contexts == {"c1"}
ContextNames == {"c1", "bad"}
CtxOpt == OptionOf(ContextNames)

\* Config::cluster_for_context
cluster_for_context(cname) == IF cname \in Contexts THEN Some(cname) ELSE None

\* struct ClickConfig, the fields the environment reads and writes
Config(ns, ctx, aliases) == [namespace |-> ns, context |-> ctx, aliases |-> aliases]

----------------------------------------------------------------------------
(* Command lines and aliases *)

Chars == {"a", "b", " "}
\* char::is_whitespace
is_whitespace(c) == c = " "

Lines == SeqsUpTo(Chars, MaxLineLen)
AliasNames == {<<"a">>, <<"b">>}
AliasExpansions == {<<"a">>, <<"b">>, <<"a", " ">>}

\* struct Alias
Alias(name, expansion) == [alias |-> name, expansion |-> expansion]
Aliases == {Alias(n, e) : n \in AliasNames, e \in AliasExpansions}

\* the alias lists a click config file is loaded with
ConfigAliases ==
    { <<>>,
      << Alias(<<"a">>, <<"b">>), Alias(<<"b">>, <<"a">>) >> }

\* the click configs the program can start from
ClickConfigs == {Config(ns, ctx, al) : ns \in NsOpt, ctx \in CtxOpt, al \in ConfigAliases}

\* str::find(char::is_whitespace).unwrap_or_else(|| line.len()): the
\* 0-based position of the first whitespace character, or the length
find_whitespace(l) ==
    LET hits == {i \in 1..Len(l) : is_whitespace(l[i])}
    IN  IF hits = {} THEN Len(l)
        ELSE (CHOOSE i \in hits : \A j \in hits : i <= j) - 1

\* &line[from + 1..]: the separator is dropped
StrFrom_skip(l, from) == SubSeq(l, from + 2, Len(l))

\* &line[from..], from counted from 0
StrFrom(l, from) == SubSeq(l, from + 1, Len(l))
\* &line[0..to]
StrTo(l, to) == SubSeq(l, 1, to)

\* the first alias, in the order of the Vec, whose name is word
first_alias(aliases, word) ==
    LET hits == {i \in 1..Len(aliases) : aliases[i].alias = word}
    IN  IF hits = {} THEN None
        ELSE Some(aliases[CHOOSE i \in hits : \A j \in hits : i <= j])

\* struct ExpandedAlias
ExpandedAlias(expansion, rest) == [expansion |-> expansion, rest |-> rest]

\* try_expand_alias without the test of prev_word
try_expand_alias_unguarded(aliases, l, pw) ==
    LET pos == find_whitespace(l)
        word == StrTo(l, pos)
        found == first_alias(aliases, word)
    IN  IF IsSome(found)
        THEN ExpandedAlias(found, StrFrom(l, pos))
        ELSE ExpandedAlias(None, l)

\* Env::try_expand_alias
try_expand_alias(aliases, l, pw) ==
    LET pos == find_whitespace(l)
        word == StrTo(l, pos)
        found == first_alias(aliases, word)
    IN  IF ~(IsSome(pw) /\ Unwrap(pw) = word) /\ IsSome(found)
        THEN ExpandedAlias(found, StrFrom(l, pos))
        ELSE ExpandedAlias(None, l)

\* alias_position comparing the expansion instead of the name
alias_position_by_expansion(aliases, name) ==
    LET hits == {i \in 1..Len(aliases) : aliases[i].expansion = name}
    IN  IF hits = {} THEN None
        ELSE Some((CHOOSE i \in hits : \A j \in hits : i <= j) - 1)

\* Env::alias_position: Option<usize>, counted from 0
alias_position(aliases, name) ==
    LET hits == {i \in 1..Len(aliases) : aliases[i].alias = name}
    IN  IF hits = {} THEN None
        ELSE Some((CHOOSE i \in hits : \A j \in hits : i <= j) - 1)

----------------------------------------------------------------------------
(* Port forwards *)

Pods == {"p0", "p1"}
Pids == 1..MaxForwards

\* struct PortForward; child is the state of the kubectl process
PortForward(pid, pod, child) == [pid |-> pid, pod |-> pod, child |-> child]

\* Child::kill: a running child is killed; for a child that has already
\* exited the call succeeds or fails with InvalidInput, depending on whether
\* its exit status has been collected
kill_results(pf) == IF pf.child = "running" THEN {"Ok"} ELSE {"Ok", "Err"}

----------------------------------------------------------------------------
(* Env::new *)

Observe(op, arg, pre, res) == [op |-> op, arg |-> arg, pre |-> pre, res |-> res]

\* the fields of the environment, as an observation of the state before a call
Session ==
    [kluster |-> kluster, namespace |-> namespace, object |-> current_object,
     object_namespace |-> current_object_namespace, last_objs |-> last_objs,
     prompt |-> prompt, click_config |-> click_config, file |-> file,
     port_forwards |-> port_forwards]

\* Env::save_click_config copies namespace and context into the click config
synced_config(cfg, ns, k) == Config(ns, k, cfg.aliases)

\* a flag and a handler of its own for every access
ctc_fresh(h, v) == [handlers |-> h + 1, value |-> FALSE]

\* access to the lazy_static CTC_BOOL: the first access creates the flag,
\* false, and installs the handler; later accesses return the same flag
CTC_BOOL(h, v) ==
    IF h = 0 THEN [handlers |-> 1, value |-> FALSE] ELSE [handlers |-> h, value |-> v]

\* Env::new(config, click_config, path), save_ok telling whether the save
\* inside set_context succeeds
EnvNew(cfg, save_ok) ==
    LET k == IF IsSome(cfg.context) THEN cluster_for_context(Unwrap(cfg.context)) ELSE None
        saved == synced_config(cfg, cfg.namespace, k)
    IN  /\ namespace = cfg.namespace
        /\ current_object = KObjNone
        /\ current_object_namespace = None
        /\ last_objs = LastListNone
        /\ port_forwards = <<>>
        /\ kluster = k
        /\ line = <<>>
        /\ prev_word = None
        /\ expansions = 0
        /\ pc = "idle"
        /\ ctrlcbool = CTC_BOOL(0, FALSE).value
        /\ handlers = CTC_BOOL(0, FALSE).handlers
        /\ IF IsSome(cfg.context)
           THEN /\ click_config = saved
                /\ alive = save_ok
                /\ file = IF save_ok THEN saved ELSE cfg
                /\ prompt = IF save_ok THEN PromptOf(k, cfg.namespace, KObjNone) ELSE InitialPrompt
           ELSE /\ click_config = cfg
                /\ alive = TRUE
                /\ file = cfg
                /\ prompt = InitialPrompt
        /\ last = Observe("new", cfg.context, <<>>, IF alive THEN "ok" ELSE "panic")

Init == \E cfg \in ClickConfigs, save_ok \in BOOLEAN : EnvNew(cfg, save_ok)

\* ClickConfig::default(), used when no click config can be loaded
DefaultConfig == Config(None, None, <<>>)
InitDefault == EnvNew(DefaultConfig, TRUE)

----------------------------------------------------------------------------
(* Selection *)

\* set_lastlist appending to a remembered list of the same kind
set_lastlist_merging(list) ==
    /\ alive /\ pc = "idle"
    /\ last_objs' = IF last_objs.kind = list.kind
                    THEN [list EXCEPT !.items = last_objs.items \o list.items]
                    ELSE list
    /\ last' = Observe("set_lastlist", list,
                       [object |-> current_object,
                        object_namespace |-> current_object_namespace,
                        prompt |-> prompt], "ok")
    /\ UNCHANGED <<alive, kluster, namespace, current_object, current_object_namespace,
                   prompt, click_config, file, port_forwards, line, prev_word,
                   expansions, pc, lifeVars>>

\* Env::set_lastlist
set_lastlist(list) ==
    /\ alive /\ pc = "idle" /\ UNCHANGED lifeVars
    /\ last_objs' = list
    /\ last' = Observe("set_lastlist", list,
                       [object |-> current_object,
                        object_namespace |-> current_object_namespace,
                        prompt |-> prompt], "ok")
    /\ UNCHANGED <<alive, kluster, namespace, current_object, current_object_namespace,
                   prompt, click_config, file, port_forwards, line, prev_word,
                   expansions, pc>>

\* Vec::get with num counted from 1
get_one_based(items, num) ==
    IF 1 <= num /\ num <= Len(items) THEN Some(items[num]) ELSE None

\* Vec::get(num)
get(items, num) == IF num < Len(items) THEN Some(items[num + 1]) ELSE None

\* set_current leaving the selection alone when the item has no name
select_keeping(list, num, obj, ns) ==
    LET now(o, n) == [object |-> o, namespace |-> n]
        item == get(list.items, num)
    IN  CASE list.kind = "None" -> now(obj, ns)
          [] list.kind = "Pod" ->
                IF IsSome(item)
                THEN now(KObjPod(Unwrap(Unwrap(item).name), Unwrap(item).containers),
                         Unwrap(item).namespace)
                ELSE now(KObjNone, ns)
          [] list.kind = "Node" ->
                IF IsSome(item)
                THEN now(KObjNamed("Node", Unwrap(Unwrap(item).name)), None)
                ELSE now(KObjNone, ns)
          [] list.kind \in {"Deployment", "Service"} ->
                IF IsSome(item)
                THEN now(KObjNamed(list.kind, Unwrap(Unwrap(item).name)),
                         Unwrap(item).namespace)
                ELSE now(KObjNone, ns)
          [] list.kind \in ValueKinds ->
                IF IsSome(item)
                THEN IF IsSome(Unwrap(item).name)
                     THEN now(KObjNamed(list.kind, Unwrap(Unwrap(item).name)),
                              Unwrap(item).namespace)
                     ELSE now(obj, ns)
                ELSE now(KObjNone, ns)

\* the match of Env::set_current: the selected object and its namespace
\* after selecting num in list, from the ones held before
select(list, num, obj, ns) ==
    LET now(o, n) == [object |-> o, namespace |-> n]
        item == get(list.items, num)
    IN  CASE list.kind = "None" -> now(obj, ns)
          [] list.kind = "Pod" ->
                IF IsSome(item)
                THEN now(KObjPod(Unwrap(Unwrap(item).name), Unwrap(item).containers),
                         Unwrap(item).namespace)
                ELSE now(KObjNone, ns)
          [] list.kind = "Node" ->
                IF IsSome(item)
                THEN now(KObjNamed("Node", Unwrap(Unwrap(item).name)), None)
                ELSE now(KObjNone, ns)
          [] list.kind \in {"Deployment", "Service"} ->
                IF IsSome(item)
                THEN now(KObjNamed(list.kind, Unwrap(Unwrap(item).name)),
                         Unwrap(item).namespace)
                ELSE now(KObjNone, ns)
          [] list.kind \in ValueKinds ->
                IF IsSome(item)
                THEN IF IsSome(Unwrap(item).name)
                     THEN now(KObjNamed(list.kind, Unwrap(Unwrap(item).name)),
                              Unwrap(item).namespace)
                     ELSE now(KObjNone, ns)
                ELSE now(KObjNone, ns)

\* Env::set_current
set_current(num) ==
    LET sel == select(last_objs, num, current_object, current_object_namespace)
    IN  /\ alive /\ pc = "idle" /\ UNCHANGED lifeVars
        /\ current_object' = sel.object
        /\ current_object_namespace' = sel.namespace
        /\ prompt' = PromptOf(kluster, namespace, sel.object)
        /\ last' = Observe("set_current", num, <<>>, "ok")
        /\ UNCHANGED <<alive, kluster, namespace, last_objs, click_config, file,
                       port_forwards, line, prev_word, expansions, pc>>

\* Env::clear_current
clear_current ==
    /\ alive /\ pc = "idle" /\ UNCHANGED lifeVars
    /\ current_object' = KObjNone
    /\ prompt' = PromptOf(kluster, namespace, KObjNone)
    /\ last' = Observe("clear_current", <<>>, <<>>, "ok")
    /\ UNCHANGED <<alive, kluster, namespace, current_object_namespace, last_objs,
                   click_config, file, port_forwards, line, prev_word, expansions, pc>>

\* the test of Env::set_namespace: both namespaces are Some and differ
do_clear(my_ns, new_ns) ==
    IsSome(my_ns) /\ IsSome(new_ns) /\ Unwrap(my_ns) # Unwrap(new_ns)

\* Env::set_namespace
set_namespace(new_ns) ==
    LET obj == IF do_clear(namespace, new_ns) THEN KObjNone ELSE current_object
    IN  /\ alive /\ pc = "idle" /\ UNCHANGED lifeVars
        /\ current_object' = obj
        /\ namespace' = new_ns
        /\ prompt' = PromptOf(kluster, new_ns, obj)
        /\ last' = Observe("set_namespace", new_ns,
                           [namespace |-> namespace, object |-> current_object,
                            object_namespace |-> current_object_namespace], "ok")
        /\ UNCHANGED <<alive, kluster, current_object_namespace, last_objs,
                       click_config, file, port_forwards, line, prev_word,
                       expansions, pc>>

\* set_context dropping the namespace and the selection when the lookup fails
set_context_clearing(ctx) ==
    /\ alive /\ pc = "idle" /\ UNCHANGED lifeVars
    /\ IF IsSome(ctx)
       THEN \E save_ok \in BOOLEAN :
              LET k == cluster_for_context(Unwrap(ctx))
                  ns == IF IsSome(k) THEN namespace ELSE None
                  obj == IF IsSome(k) THEN current_object ELSE KObjNone
                  saved == synced_config(click_config, ns, k)
              IN  /\ kluster' = k
                  /\ namespace' = ns
                  /\ current_object' = obj
                  /\ click_config' = saved
                  /\ alive' = save_ok
                  /\ file' = IF save_ok THEN saved ELSE file
                  /\ prompt' = IF save_ok THEN PromptOf(k, ns, obj) ELSE prompt
                  /\ last' = Observe("set_context", ctx, Session,
                                     IF save_ok THEN "ok" ELSE "panic")
       ELSE /\ last' = Observe("set_context", ctx, Session, "ok")
            /\ UNCHANGED <<alive, kluster, click_config, file, prompt, namespace,
                           current_object>>
    /\ UNCHANGED <<current_object_namespace, last_objs,
                   port_forwards, line, prev_word, expansions, pc>>

\* Env::set_context
set_context(ctx) ==
    /\ alive /\ pc = "idle" /\ UNCHANGED lifeVars
    /\ IF IsSome(ctx)
       THEN \E save_ok \in BOOLEAN :
              LET k == cluster_for_context(Unwrap(ctx))
                  saved == synced_config(click_config, namespace, k)
              IN  /\ kluster' = k
                  /\ click_config' = saved
                  /\ alive' = save_ok
                  /\ file' = IF save_ok THEN saved ELSE file
                  /\ prompt' = IF save_ok THEN PromptOf(k, namespace, current_object)
                               ELSE prompt
                  /\ last' = Observe("set_context", ctx, Session,
                                     IF save_ok THEN "ok" ELSE "panic")
       ELSE /\ last' = Observe("set_context", ctx, Session, "ok")
            /\ UNCHANGED <<alive, kluster, click_config, file, prompt>>
    /\ UNCHANGED <<namespace, current_object, current_object_namespace, last_objs,
                   port_forwards, line, prev_word, expansions, pc>>

\* what the closure given to run_on_kluster returns: Ok(r) or Err(e)
Outcomes == {[ok |-> TRUE, val |-> "r1"], [ok |-> TRUE, val |-> "r2"], [ok |-> FALSE]}

\* run_result calling the closure without a cluster and keeping a failed result
run_result_unchecked(k, outcome) ==
    [calls |-> 1, result |-> IF outcome.ok THEN Some(outcome.val) ELSE Some("error")]

\* the match of Env::run_on_kluster: how often the closure is called, and
\* the Option returned
run_result(k, outcome) ==
    IF IsSome(k)
    THEN [calls |-> 1, result |-> IF outcome.ok THEN Some(outcome.val) ELSE None]
    ELSE [calls |-> 0, result |-> None]

\* Env::run_on_kluster(f), outcome being what f returns when it is called
run_on_kluster(outcome) ==
    /\ alive /\ pc = "idle" /\ UNCHANGED lifeVars
    /\ last' = Observe("run_on_kluster", outcome, Session, run_result(kluster, outcome))
    /\ UNCHANGED <<alive, selVars, cfgVars, port_forwards, loopVars>>

NextSel ==
    \/ \E list \in LastLists : set_lastlist(list)
    \/ \E num \in Indices : set_current(num)
    \/ clear_current
    \/ \E new_ns \in NsOpt : set_namespace(new_ns)

SpecSel == InitDefault /\ [][NextSel]_vars

----------------------------------------------------------------------------
(* Aliases *)

aliases == click_config.aliases

\* Env::add_alias: remove_alias (which saves when it removed something),
\* push, save.  ok1 and ok2 tell whether the two saves succeed.
add_alias(alias) ==
    \E ok1, ok2 \in BOOLEAN :
      LET pos == alias_position(aliases, alias.alias)
          removed == IF IsSome(pos) THEN VecRemove(aliases, Unwrap(pos)) ELSE aliases
          pushed == Append(removed, alias)
          after_remove == synced_config([click_config EXCEPT !.aliases = removed],
                                        namespace, kluster)
          after_push == synced_config([click_config EXCEPT !.aliases = pushed],
                                      namespace, kluster)
      IN  /\ alive /\ pc = "idle" /\ UNCHANGED lifeVars
          /\ IF IsSome(pos) /\ ~ok1
             THEN /\ click_config' = after_remove
                  /\ file' = file
                  /\ alive' = FALSE
             ELSE /\ click_config' = after_push
                  /\ file' = IF ok2 THEN after_push
                             ELSE IF IsSome(pos) THEN after_remove ELSE file
                  /\ alive' = ok2
          /\ last' = Observe("add_alias", alias, aliases, IF alive' THEN "ok" ELSE "panic")
          /\ UNCHANGED <<selVars, port_forwards, loopVars>>

\* remove_alias without the save
remove_alias_unsaved(name) ==
    LET pos == alias_position(aliases, name)
    IN  /\ alive /\ pc = "idle" /\ UNCHANGED lifeVars
        /\ IF IsSome(pos)
           THEN /\ click_config' = [click_config EXCEPT
                                      !.aliases = VecRemove(aliases, Unwrap(pos))]
                /\ last' = Observe("remove_alias", name,
                                   [aliases |-> aliases, file |-> file], "true")
           ELSE /\ last' = Observe("remove_alias", name,
                                   [aliases |-> aliases, file |-> file], "false")
                /\ UNCHANGED click_config
        /\ UNCHANGED <<alive, file, selVars, port_forwards, loopVars>>

\* Env::remove_alias
remove_alias(name) ==
    \E ok \in BOOLEAN :
      LET pos == alias_position(aliases, name)
          removed == synced_config(
                        [click_config EXCEPT !.aliases = VecRemove(aliases, Unwrap(pos))],
                        namespace, kluster)
      IN  /\ alive /\ pc = "idle" /\ UNCHANGED lifeVars
          /\ IF IsSome(pos)
             THEN /\ click_config' = removed
                  /\ file' = IF ok THEN removed ELSE file
                  /\ alive' = ok
                  /\ last' = Observe("remove_alias", name,
                                     [aliases |-> aliases, file |-> file],
                                     IF ok THEN "true" ELSE "panic")
             ELSE /\ last' = Observe("remove_alias", name,
                                     [aliases |-> aliases, file |-> file], "false")
                  /\ UNCHANGED <<click_config, file, alive>>
          /\ UNCHANGED <<selVars, port_forwards, loopVars>>

\* the words a caller can pass as prev_word
PrevWords == OptionOf(SeqsUpTo(Chars \ {" "}, 1))

\* a call of Env::try_expand_alias(line, prev_word)
expand(l, pw) ==
    /\ alive /\ pc = "idle" /\ UNCHANGED lifeVars
    /\ last' = Observe("try_expand_alias", [line |-> l, prev_word |-> pw], <<>>,
                       try_expand_alias(aliases, l, pw))
    /\ UNCHANGED <<alive, selVars, cfgVars, port_forwards, loopVars>>

\* The loop of the command processor around try_expand_alias: a line is
\* read, and while the call returns an alias the leading word is replaced
\* by the alias's expansion and the call is repeated with the expanded word
\* as prev_word.  line, prev_word and expansions are locals of the loop.
read_line(l) ==
    /\ alive /\ pc = "idle" /\ UNCHANGED lifeVars
    /\ line' = l
    /\ prev_word' = None
    /\ expansions' = 0
    /\ pc' = "expanding"
    /\ last' = Observe("read_line", l, <<>>, "ok")
    /\ UNCHANGED <<alive, selVars, cfgVars, port_forwards>>

expand_step ==
    LET r == try_expand_alias(aliases, line, prev_word)
        a == Unwrap(r.expansion)
    IN  /\ alive /\ pc = "expanding" /\ UNCHANGED lifeVars
        /\ IF IsSome(r.expansion)
           THEN /\ expansions < MaxExpansions
                /\ Len(a.expansion \o r.rest) <= MaxLineLen
                /\ line' = a.expansion \o r.rest
                /\ prev_word' = Some(a.alias)
                /\ expansions' = expansions + 1
                /\ pc' = "expanding"
           ELSE /\ pc' = "idle"
                /\ line' = <<>>
                /\ prev_word' = None
                /\ expansions' = 0
        /\ last' = Observe("expand_step", [line |-> line, prev_word |-> prev_word],
                           <<>>, r)
        /\ UNCHANGED <<alive, selVars, cfgVars, port_forwards>>

NextAlias ==
    \/ \E a \in Aliases : add_alias(a)
    \/ \E n \in AliasNames : remove_alias(n)
    \/ \E l \in Lines, pw \in PrevWords : expand(l, pw)
    \/ \E l \in Lines : read_line(l)
    \/ expand_step

\* the click configs the alias checks start from
AliasConfigs == {Config(None, None, al) : al \in ConfigAliases}
InitAlias == \E cfg \in AliasConfigs : EnvNew(cfg, TRUE)

SpecAlias == InitAlias /\ [][NextAlias]_vars

----------------------------------------------------------------------------
(* Port forwards *)

\* Env::get_port_forwards: the tracked forwards in the order of the Vec
get_port_forwards == port_forwards
\* Env::get_port_forward
get_port_forward(i) == get(port_forwards, i)

\* Env::add_port_forward, for a forward whose kubectl child was just spawned
add_port_forward(pid, pod) ==
    /\ alive /\ pc = "idle" /\ UNCHANGED lifeVars
    /\ Len(port_forwards) < MaxForwards
    /\ pid \notin {port_forwards[j].pid : j \in 1..Len(port_forwards)}
    /\ port_forwards' = Append(port_forwards, PortForward(pid, pod, "running"))
    /\ last' = Observe("add_port_forward", pid, port_forwards, "ok")
    /\ UNCHANGED <<alive, selVars, cfgVars, loopVars>>

\* the kubectl child of a tracked forward exits on its own
child_exits(j) ==
    /\ alive /\ pc = "idle" /\ UNCHANGED lifeVars
    /\ j \in 1..Len(port_forwards)
    /\ port_forwards[j].child = "running"
    /\ port_forwards' = [port_forwards EXCEPT ![j].child = "exited"]
    /\ last' = Observe("child_exits", j, port_forwards, "ok")
    /\ UNCHANGED <<alive, selVars, cfgVars, loopVars>>

\* Env::stop_port_forward
stop_port_forward_kill_first(i) ==
    /\ alive /\ pc = "idle" /\ UNCHANGED lifeVars
    /\ IF i < Len(port_forwards)
       THEN \E res \in kill_results(port_forwards[i + 1]) :
              /\ port_forwards' = IF res = "Ok" THEN VecRemove(port_forwards, i)
                                  ELSE port_forwards
              /\ last' = Observe("stop_port_forward", i, port_forwards, res)
       ELSE /\ last' = Observe("stop_port_forward", i, port_forwards, "Ok")
            /\ UNCHANGED port_forwards
    /\ UNCHANGED <<alive, selVars, cfgVars, loopVars>>

\* Env::stop_port_forward
stop_port_forward(i) ==
    /\ alive /\ pc = "idle" /\ UNCHANGED lifeVars
    /\ IF i < Len(port_forwards)
       THEN \E res \in kill_results(port_forwards[i + 1]) :
              /\ port_forwards' = VecRemove(port_forwards, i)
              /\ last' = Observe("stop_port_forward", i, port_forwards, res)
       ELSE /\ last' = Observe("stop_port_forward", i, port_forwards, "Ok")
            /\ UNCHANGED port_forwards
    /\ UNCHANGED <<alive, selVars, cfgVars, loopVars>>

\* Env::stop_all_forwards: the children are killed in order and the first
\* failed kill panics (unwrap), before the Vec is replaced
stop_all_forwards ==
    \E res \in [1..Len(port_forwards) -> {"Ok", "Err"}] :
      LET n == Len(port_forwards)
          errs == {j \in 1..n : res[j] = "Err"}
          first_err == CHOOSE j \in errs : \A k \in errs : j <= k
      IN  /\ alive /\ pc = "idle" /\ UNCHANGED lifeVars
          /\ \A j \in 1..n : res[j] \in kill_results(port_forwards[j])
          /\ IF errs = {}
             THEN /\ port_forwards' = <<>>
                  /\ alive' = TRUE
                  /\ last' = Observe("stop_all_forwards", <<>>, port_forwards, "ok")
             ELSE /\ port_forwards' =
                        [j \in 1..n |-> IF j < first_err
                                        THEN [port_forwards[j] EXCEPT !.child = "killed"]
                                        ELSE port_forwards[j]]
                  /\ alive' = FALSE
                  /\ last' = Observe("stop_all_forwards", <<>>, port_forwards, "panic")
          /\ UNCHANGED <<selVars, cfgVars, loopVars>>

NextForward ==
    \/ \E pid \in Pids, pod \in Pods : add_port_forward(pid, pod)
    \/ \E j \in 1..MaxForwards : child_exits(j)
    \/ \E i \in 0..MaxForwards : stop_port_forward(i)
    \/ stop_all_forwards

SpecForward == InitDefault /\ [][NextForward]_vars

----------------------------------------------------------------------------
(* The interrupt flag and the end of the session *)

\* the handler installed by CTC_BOOL: r.store(true), from the signal thread
ctrlc_handler ==
    /\ alive
    /\ ctrlcbool' = TRUE
    /\ last' = Observe("ctrlc", <<>>, <<>>, "ok")
    /\ UNCHANGED <<alive, selVars, cfgVars, port_forwards, loopVars, handlers>>

\* a further access to CTC_BOOL, as made by Env::new for its ctrlcbool field
obtain_flag ==
    LET c == CTC_BOOL(handlers, ctrlcbool)
    IN  /\ alive
        /\ ctrlcbool' = c.value
        /\ handlers' = c.handlers
        /\ last' = Observe("obtain_flag", <<>>, <<>>, "ok")
        /\ UNCHANGED <<alive, selVars, cfgVars, port_forwards, loopVars>>

\* a cancellable wait reads the flag
poll ==
    /\ alive
    /\ last' = Observe("poll", <<>>, <<>>, ctrlcbool)
    /\ UNCHANGED <<alive, selVars, cfgVars, port_forwards, loopVars, lifeVars>>

\* the interactive loop clears the flag before it runs a command
reset_flag ==
    /\ alive /\ pc = "idle"
    /\ ctrlcbool' = FALSE
    /\ last' = Observe("reset_flag", <<>>, <<>>, "ok")
    /\ UNCHANGED <<alive, selVars, cfgVars, port_forwards, loopVars, handlers>>

\* The session ends, after quit or after the one command of --exec: the
\* tracked forwards are stopped with stop_all_forwards and the process
\* exits.  A failed kill panics before the later forwards are killed.
exit(mode) ==
    \E res \in [1..Len(port_forwards) -> {"Ok", "Err"}] :
      LET n == Len(port_forwards)
          errs == {j \in 1..n : res[j] = "Err"}
          first_err == CHOOSE j \in errs : \A k \in errs : j <= k
      IN  /\ alive /\ pc = "idle" /\ UNCHANGED lifeVars
          /\ \A j \in 1..n : res[j] \in kill_results(port_forwards[j])
          /\ port_forwards' =
                IF errs = {} THEN <<>>
                ELSE [j \in 1..n |-> IF j < first_err
                                     THEN [port_forwards[j] EXCEPT !.child = "killed"]
                                     ELSE port_forwards[j]]
          /\ alive' = FALSE
          /\ last' = Observe("exit", mode, port_forwards,
                             IF errs = {} THEN "ok" ELSE "panic")
          /\ UNCHANGED <<selVars, cfgVars, loopVars>>

NextLife ==
    \/ NextForward
    \/ ctrlc_handler
    \/ obtain_flag
    \/ poll
    \/ reset_flag
    \/ \E mode \in {"quit", "exec"} : exit(mode)

SpecLife == InitDefault /\ [][NextLife]_vars

----------------------------------------------------------------------------
(* The session: context, namespace and selection together *)

\* the lists fetched in the session checks
SessionLists ==
    { [kind |-> "Pod", items |-> <<CHOOSE it \in PlainItems : IsSome(it.namespace)>>],
      [kind |-> "Node", items |-> <<CHOOSE it \in PlainItems : ~IsSome(it.namespace)>>] }
    \cup { [kind |-> k, items |-> <<CHOOSE it \in ValueItems : ~IsSome(it.name)>>] :
             k \in ValueKinds }

\* the click configs the session checks start from
SessionConfigs ==
    {cfg \in ClickConfigs : cfg.aliases # <<>>}
InitSession == \E cfg \in SessionConfigs, save_ok \in BOOLEAN : EnvNew(cfg, save_ok)

NextSession ==
    \/ \E ctx \in CtxOpt : set_context(ctx)
    \/ \E new_ns \in NsOpt : set_namespace(new_ns)
    \/ \E list \in SessionLists : set_lastlist(list)
    \/ \E num \in Indices : set_current(num)
    \/ clear_current
    \/ \E outcome \in Outcomes : run_on_kluster(outcome)
    \/ \E pod \in Pods : add_port_forward(1, pod)

SpecSession == InitSession /\ [][NextSession]_vars

----------------------------------------------------------------------------
(* The whole environment *)

Next ==
    \/ NextSel
    \/ \E ctx \in CtxOpt : set_context(ctx)
    \/ \E outcome \in Outcomes : run_on_kluster(outcome)
    \/ NextAlias
    \/ NextLife

Spec == Init /\ [][Next]_vars

----------------------------------------------------------------------------
(* Selection by index *)

\* what a selection of item must look like for a list of the given kind
SelectionIs(kind, item) ==
    /\ current_object.kind = kind
    /\ Some(current_object.name) = item.name
    /\ kind # "Node" => current_object_namespace = item.namespace
    /\ kind = "Pod" => current_object.containers = item.containers

\* C1 as stated: after set_current(i) on a recorded list L of any kind, an
\* index within L yields a selection of L's kind with the name, the namespace
\* (namespaced kinds) and, for Pod, the container names of L[i]; an index
\* past the end yields the empty selection; no call fails.
C1_Original ==
    (last.op = "set_current" /\ last_objs.kind # "None") =>
        /\ alive
        /\ IF last.arg < Len(last_objs.items)
           THEN SelectionIs(last_objs.kind, last_objs.items[last.arg + 1])
           ELSE current_object = KObjNone

\* C1 amended: the same for every item that carries a name; an item without
\* a name in its metadata (ReplicaSet, StatefulSet, ConfigMap, Secret, Job)
\* yields the empty selection, as does an index past the end; no call fails.
C1_Amended ==
    (last.op = "set_current" /\ last_objs.kind # "None") =>
        /\ alive
        /\ IF last.arg < Len(last_objs.items)
              /\ IsSome(last_objs.items[last.arg + 1].name)
           THEN SelectionIs(last_objs.kind, last_objs.items[last.arg + 1])
           ELSE current_object = KObjNone

\* the second of two different pods has just been selected
C1_Witness ==
    /\ last.op = "set_current" /\ last.arg = 1
    /\ last_objs.kind = "Pod" /\ Len(last_objs.items) = 2
    /\ last_objs.items[1] # last_objs.items[2]
    /\ current_object.kind = "Pod"
    /\ Some(current_object.name) = last_objs.items[2].name

----------------------------------------------------------------------------
(* Namespace continuity *)

\* C2: set_namespace(new) with new defined, called while an object is
\* selected whose namespace is defined and differs from new, leaves the
\* selection empty, whatever the session's namespace was before.
C2_Claim ==
    ( /\ last.op = "set_namespace"
      /\ IsSome(last.arg)
      /\ last.pre.object # KObjNone
      /\ IsSome(last.pre.object_namespace)
      /\ last.pre.object_namespace # last.arg )
    => current_object = KObjNone

\* C3: set_namespace leaves the selected object as it was whenever the
\* selected object's namespace is undefined (a Node) or the new namespace is
\* undefined.
C3_Claim ==
    ( /\ last.op = "set_namespace"
      /\ (last.pre.object_namespace = None \/ last.arg = None) )
    => current_object = last.pre.object

----------------------------------------------------------------------------
(* Alias expansion *)

NamesOf(al) == {al[i].alias : i \in 1..Len(al)}

\* C4: the loop around try_expand_alias makes at most as many productive
\* expansions of a line as there are distinct alias names.
C4_Claim == expansions <= Cardinality(NamesOf(aliases))

\* the first whitespace-delimited token of a line: its longest prefix
\* without whitespace
FirstToken(l) ==
    CHOOSE w \in {SubSeq(l, 1, n) : n \in 0..Len(l)} :
        /\ \A i \in 1..Len(w) : ~is_whitespace(w[i])
        /\ Len(w) = Len(l) \/ is_whitespace(l[Len(w) + 1])

IsExpandCall == last.op \in {"try_expand_alias", "expand_step"}

GuardFires ==
    IsSome(last.arg.prev_word) /\ Unwrap(last.arg.prev_word) = FirstToken(last.arg.line)

\* C5: a call of try_expand_alias whose prev_word is defined and equals the
\* first word of the line returns no expansion and the line itself as rest,
\* also when an alias of that name exists.
C5_LoopGuard ==
    (IsExpandCall /\ GuardFires) =>
        /\ last.res.expansion = None
        /\ last.res.rest = last.arg.line

\* the guard fired on a word that is the name of an alias
C5_Witness ==
    /\ IsExpandCall /\ GuardFires
    /\ FirstToken(last.arg.line) \in NamesOf(aliases)
    /\ last.res.expansion = None

\* C6: when the guard does not fire, the call returns the alias named by the
\* first token of the line, with the rest such that the alias name followed
\* by the rest is the line; with no alias of that name it returns no
\* expansion and the line as rest.
C6_Expansion ==
    (IsExpandCall /\ ~GuardFires) =>
        IF FirstToken(last.arg.line) \in NamesOf(aliases)
        THEN /\ IsSome(last.res.expansion)
             /\ Unwrap(last.res.expansion) \in Range(aliases)
             /\ Unwrap(last.res.expansion).alias = FirstToken(last.arg.line)
             /\ Unwrap(last.res.expansion).alias \o last.res.rest = last.arg.line
        ELSE /\ last.res.expansion = None
             /\ last.res.rest = last.arg.line

\* an alias was returned for a line that goes on after the first token
C6_Witness ==
    /\ IsExpandCall /\ ~GuardFires
    /\ IsSome(last.res.expansion)
    /\ Len(last.res.rest) = 2
    /\ is_whitespace(last.res.rest[1])

----------------------------------------------------------------------------
(* The alias set *)

Others(al, name) == SelectSeq(al, LAMBDA a : a.alias # name)

----------------------------------------------------------------------------
(* Stopping port forwards *)

\* C8: stop_port_forward(i) with i out of range returns Ok and leaves the
\* tracked forwards as they were; with i in range it removes the forward at
\* position i and keeps the others in their order.
C8_Stop ==
    last.op = "stop_port_forward" =>
        IF last.arg >= Len(last.pre)
        THEN last.res = "Ok" /\ get_port_forwards = last.pre
        ELSE /\ Len(get_port_forwards) = Len(last.pre) - 1
             /\ \A j \in 1..Len(get_port_forwards) :
                   get_port_forwards[j] = IF j <= last.arg THEN last.pre[j]
                                          ELSE last.pre[j + 1]
             /\ \A j \in 1..Len(get_port_forwards) :
                   get_port_forwards[j].pid # last.pre[last.arg + 1].pid

\* the first of three forwards was stopped
C8_Witness ==
    /\ last.op = "stop_port_forward" /\ last.arg = 0
    /\ Len(last.pre) = 3
    /\ get_port_forwards = <<last.pre[2], last.pre[3]>>

\* C9: stop_all_forwards leaves no forward tracked, also when some of the
\* tracked processes have already exited.
C9_Claim == last.op = "stop_all_forwards" => port_forwards = <<>>

\* C10: stop_port_forward(i) of a tracked forward whose process has already
\* exited returns Ok.
C10_Claim ==
    ( /\ last.op = "stop_port_forward"
      /\ last.arg < Len(last.pre)
      /\ last.pre[last.arg + 1].child = "exited" )
    => last.res = "Ok"

----------------------------------------------------------------------------
(* Switching the context *)

\* C11: a set_context(name) whose name does not resolve leaves no active
\* cluster and the namespace, the selected object, the recorded list, the
\* aliases and the port forwards as they were; set_context(None) changes
\* nothing.
C11_FailedSwitch ==
    last.op = "set_context" =>
        IF last.arg = None
        THEN alive /\ Session = last.pre
        ELSE Unwrap(last.arg) \notin Contexts =>
                /\ kluster = None
                /\ namespace = last.pre.namespace
                /\ current_object = last.pre.object
                /\ current_object_namespace = last.pre.object_namespace
                /\ last_objs = last.pre.last_objs
                /\ aliases = last.pre.click_config.aliases
                /\ port_forwards = last.pre.port_forwards

\* a switch failed with a cluster active, an object selected in a
\* namespace, aliases defined and a forward running
C11_Witness ==
    /\ last.op = "set_context" /\ last.arg = Some("bad")
    /\ IsSome(last.pre.kluster) /\ kluster = None
    /\ current_object # KObjNone /\ IsSome(namespace)
    /\ aliases # <<>> /\ port_forwards # <<>>

\* C12: the namespace recorded for the selected object is undefined exactly
\* when nothing is selected or a Node is selected.
C12_Claim ==
    (current_object_namespace = None) <=> (current_object.kind \in {"None", "Node"})

----------------------------------------------------------------------------
(* The prompt *)

OrNone(o) == IF IsSome(o) THEN Unwrap(o) ELSE "none"

\* the names shown by the prompt, and the names of the current cluster,
\* namespace and selected object
PromptTexts == <<prompt[1].text, prompt[2].text, prompt[3].text>>
Projection ==
    << OrNone(kluster), OrNone(namespace),
       IF current_object = KObjNone THEN "none" ELSE current_object.name >>

\* C13: after a completed set_context(name), set_namespace, set_current or
\* clear_current the prompt shows the current cluster, namespace and
\* selected object.
C13_PromptCurrent ==
    ( /\ \/ last.op \in {"set_namespace", "set_current", "clear_current"}
         \/ last.op = "set_context" /\ IsSome(last.arg)
      /\ last.res = "ok" )
    => PromptTexts = Projection

\* the namespace was switched with a cluster active and an object selected
C13_Witness ==
    /\ last.op = "set_namespace" /\ last.res = "ok"
    /\ IsSome(kluster) /\ IsSome(namespace) /\ current_object # KObjNone
    /\ last.pre.namespace # namespace

----------------------------------------------------------------------------
(* Running on the cluster *)

\* C14: run_on_kluster calls the closure not at all and returns None
\* without an active cluster; with one it calls it once and returns its
\* result, or None when it failed; no field of the session changes.
C14_RunOnCluster ==
    last.op = "run_on_kluster" =>
        /\ alive /\ Session = last.pre
        /\ IF kluster = None
           THEN last.res.calls = 0 /\ last.res.result = None
           ELSE /\ last.res.calls = 1
                /\ last.arg.ok => last.res.result = Some(last.arg.val)
                /\ ~last.arg.ok => last.res.result = None

\* the closure failed on an active cluster, with an object selected
C14_Witness ==
    /\ last.op = "run_on_kluster"
    /\ IsSome(kluster) /\ ~last.arg.ok /\ last.res.result = None
    /\ current_object # KObjNone

----------------------------------------------------------------------------
(* Selecting without a list *)

\* C15: set_current with no list recorded leaves every field of the
\* session as it was.
C15_Claim ==
    [][ (last'.op = "set_current" /\ last_objs = LastListNone)
        => UNCHANGED <<alive, kluster, namespace, current_object,
                       current_object_namespace, last_objs, prompt, click_config,
                       file, port_forwards>> ]_vars

----------------------------------------------------------------------------
(* Persistence *)

\* C16: after a completed set_context(name), set_namespace, add_alias or
\* successful remove_alias the config file holds the session's cluster,
\* namespace and aliases.
C16_Claim ==
    ( \/ last.op \in {"set_namespace", "add_alias"} /\ last.res = "ok"
      \/ last.op = "set_context" /\ IsSome(last.arg) /\ last.res = "ok"
      \/ last.op = "remove_alias" /\ last.res = "true" )
    => file = Config(namespace, kluster, aliases)

\* C17: remove_alias(name) returns true exactly when an alias of that name
\* existed; the alias is then gone and the file holds the new aliases; when
\* it returns false neither the aliases nor the file have changed.
C17_Remove ==
    last.op = "remove_alias" =>
        /\ last.res # "panic" =>
              (last.res = "true" <=> last.arg \in NamesOf(last.pre.aliases))
        /\ last.res = "true" =>
              /\ last.arg \notin NamesOf(aliases)
              /\ aliases = Others(last.pre.aliases, last.arg)
              /\ file.aliases = aliases
        /\ last.res = "false" =>
              /\ aliases = last.pre.aliases
              /\ file = last.pre.file

\* the first of two aliases was removed
C17_Witness ==
    /\ last.op = "remove_alias" /\ last.res = "true"
    /\ Len(last.pre.aliases) = 2
    /\ last.pre.aliases[1].alias = last.arg
    /\ aliases = <<last.pre.aliases[2]>>

----------------------------------------------------------------------------
(* The interrupt flag *)

\* C18: the flag is created and its handler installed once; the handler
\* sets it; once true it stays true until the interactive loop resets it.
C18_Flag ==
    [][ /\ handlers = 1 /\ handlers' = 1
        /\ last'.op = "ctrlc" => ctrlcbool'
        /\ (ctrlcbool /\ ~ctrlcbool') => last'.op = "reset_flag" ]_vars

\* the flag was read as true while a forward was tracked
C18_Witness ==
    /\ last.op = "poll" /\ last.res = TRUE
    /\ port_forwards # <<>>

\* C19: when the session ends, by quit or after --exec, no tracked port
\* forward is left with its process running.
C19_Claim ==
    last.op = "exit" =>
        \A j \in 1..Len(port_forwards) : port_forwards[j].child # "running"

----------------------------------------------------------------------------
(* Recording a list *)

\* C20: set_lastlist(L) makes L the remembered list whatever was remembered
\* before and leaves the selected object, its namespace and the prompt as
\* they were; a later set_current selects from the remembered list.
C20_RecordList ==
    /\ last.op = "set_lastlist" =>
          /\ last_objs = last.arg
          /\ current_object = last.pre.object
          /\ current_object_namespace = last.pre.object_namespace
          /\ prompt = last.pre.prompt
    /\ (last.op = "set_current" /\ current_object # KObjNone) =>
          /\ last.arg < Len(last_objs.items)
          /\ current_object.kind = last_objs.kind
          /\ Some(current_object.name) = last_objs.items[last.arg + 1].name

\* a list of nodes replaced the list a pod was selected from
C20_Witness ==
    /\ last.op = "set_lastlist"
    /\ last.arg.kind = "Node" /\ last_objs = last.arg
    /\ current_object.kind = "Pod"
    /\ IsSome(current_object_namespace)

----------------------------------------------------------------------------
(* Items without a name, failed stops, the prompt from the start *)

\* C21: set_current on an in-range item of a ReplicaSet, StatefulSet,
\* ConfigMap, Secret or Job list whose metadata has no name empties the
\* selection, does not end the session, and leaves the cluster, the
\* namespace, the recorded list, the aliases and the port forwards as they
\* were.
C21_NamelessItem ==
    [][ ( /\ last'.op = "set_current"
          /\ last_objs.kind \in ValueKinds
          /\ last'.arg < Len(last_objs.items)
          /\ ~IsSome(last_objs.items[last'.arg + 1].name) )
        => /\ current_object' = KObjNone
           /\ alive'
           /\ UNCHANGED <<kluster, namespace, last_objs, click_config, port_forwards>> ]_vars

\* a nameless Job was chosen while an object was selected in a namespace,
\* with a cluster active, aliases defined and a forward tracked
C21_Witness ==
    /\ last.op = "set_current"
    /\ last_objs.kind = "Job"
    /\ last.arg < Len(last_objs.items)
    /\ ~IsSome(last_objs.items[last.arg + 1].name)
    /\ current_object = KObjNone /\ IsSome(current_object_namespace)
    /\ IsSome(kluster) /\ aliases # <<>> /\ port_forwards # <<>>

\* C22: stop_port_forward(i) for an in-range i leaves the forward it
\* targeted untracked, also when the kill returned an error.
C22_Untracked ==
    (last.op = "stop_port_forward" /\ last.arg < Len(last.pre)) =>
        /\ alive
        /\ port_forwards = VecRemove(last.pre, last.arg)
        /\ last.pre[last.arg + 1] \notin Range(port_forwards)

\* the kill of an exited child failed and the forward is gone, another
\* one still tracked
C22_Witness ==
    /\ last.op = "stop_port_forward" /\ last.res = "Err"
    /\ last.arg < Len(last.pre)
    /\ last.pre[last.arg + 1].child = "exited"
    /\ Len(last.pre) = 2 /\ Len(port_forwards) = 1

\* C23: in every state of a running session, the one right after Env::new
\* included, the prompt shows the current cluster, namespace and selected
\* object.
C23_Claim == alive => PromptTexts = Projection

====
